---- MODULE Spec2Model ----
(***************************************************************************)
(* The compilation driver of src/compiler/compiler.c: parsing of the       *)
(* source list, the staged analysis loop over module_list, the hand-over   *)
(* to the backend, and the public-symbol registry.                         *)
(***************************************************************************)
EXTENDS Integers, Sequences, FiniteSets, TLC

\* ------------------------------------------------------------------ bounds
MaxSources == 3      \* entries of global_context.sources
MaxModules == 3      \* distinct module names
MaxErrors == 2       \* cap of the errors_found counter
MaxDecls == 6        \* public declarations that can be registered
MaxNames == 2        \* distinct declaration names
MaxRegModules == 2   \* distinct module names of the declarations
MaxRegs == 3         \* calls of compiler_register_public_symbol

\* ------------------------------------------------- AnalysisStage (enum)
ANALYSIS_NOT_BEGUN == 0
ANALYSIS_IMPORTS == 1
ANALYSIS_REGISTER_GLOBALS == 2
ANALYSIS_CONDITIONAL_COMPILATION == 3
ANALYSIS_DECLS == 4
ANALYSIS_CT_ASSERT == 5
ANALYSIS_FUNCTIONS == 6
ANALYSIS_LAST == ANALYSIS_FUNCTIONS

EXIT_SUCCESS == 0
EXIT_FAILURE == 1
NoExit == EXIT_FAILURE + 1     \* marks a process that has not exited
NoModule == MaxModules + 1     \* marks "no module": a file or pass that names none

ModNames == 1..MaxModules
Files == 1..MaxSources

\* File and module names stand for themselves only, so a list of sources
\* numbers its files in the order of their first occurrence, and a new
\* module takes the first name not in use.
InOrderOfFirstUse(s) ==
    \A k \in DOMAIN s : s[k] <= 1 + Cardinality({s[j] : j \in 1..(k - 1)})

VARIABLES
    pc,                  \* position of the driver in compile / compiler_compile
    sources,             \* global_context.sources
    src_i,               \* index i of the VECEACH over sources
    loaded_files,        \* files source_file_load has already loaded
    contexts,            \* vec_size(contexts)
    modules,             \* keys of global_context.modules
    module_list,         \* global_context.module_list
    generic_module_list, \* global_context.generic_module_list
    mod_stage,           \* module->stage, by module name
    parameters,          \* module->parameters != NULL, by module name
    std_stage,           \* global_context.std_module.stage
    errors_found,        \* global_context.errors_found
    stage,               \* the loop variable of compiler_compile's stage loop
    i,                   \* the loop variable of analyze_to_stage (1-based)
    create_exe,          \* create_exe of compiler_compile
    gen_contexts,        \* modules whose llvm_gen returned a context
    called,              \* backend entry points called so far
    obj_files,           \* the slots of obj_files written so far
    arenas_freed,        \* the arenas that compiler_compile has freed
    exit_status,         \* status the process exited with, or NoExit
    passLog,             \* history: the passes run, in order, each with the stage
                         \* analyze_to_stage was called for and errors_found
                         \* before and after it
    imported,            \* history: the modules created while a pass was running
    global_symbols,      \* global_context.global_symbols
    qualified_symbols,   \* global_context.qualified_symbols
    std_symbols,         \* global_context.std_module.symbols / public_symbols
    regLog,              \* history: the declarations registered, in order
    focCall,             \* history: the last call of compiler_find_or_create_module
    threads,             \* threads[k]: the worker spawned k-th, with its argument,
                         \* whether it has returned, and what it returned
    join_i,              \* the loop variable of the join loop (1-based)
    link_result,         \* how linking ended, "none" before
    target_sources,      \* active_target.sources
    lib_dir,             \* global_context.lib_dir != NULL
    mode,                \* "lex_only", "parse_only" or "compile", from active_target
    loadLog,             \* history: the names passed to source_file_load, in order
    printed,             \* history: the files compiler_lex / compiler_parse printed
    scratch_buffer,      \* global_context.scratch_buffer, by 0-based index
    scratch_buffer_len,  \* global_context.scratch_buffer_len
    overrun,             \* a write past the end of scratch_buffer has happened
    sbCall,              \* history: the last scratch-buffer call and its length
    arena_next,          \* by arena, the index its next allocation returns
    allocLog             \* history: the <<arena, index>> given to user allocations

pipeVars == <<pc, sources, src_i, loaded_files, contexts, modules, module_list,
              generic_module_list, mod_stage, parameters, std_stage, errors_found,
              stage, i, create_exe, gen_contexts, called,
              obj_files, arenas_freed, exit_status, passLog, imported>>

regVars == <<global_symbols, qualified_symbols, std_symbols, regLog>>

auxVars == <<focCall, target_sources, lib_dir, mode, loadLog, printed>>

thrVars == <<threads, join_i, link_result>>

scrVars == <<scratch_buffer, scratch_buffer_len, overrun, sbCall>>

arenaVars == <<arena_next, allocLog>>

libVars == <<scrVars, arenaVars>>

vars == <<pipeVars, regVars, auxVars, thrVars, libVars>>

Range(s) == {s[k] : k \in DOMAIN s}

\* ------------------------------------------------------------ operations

\* The module registry of the global context as one value.
ModState ==
    [modules |-> modules, module_list |-> module_list,
     generic_module_list |-> generic_module_list,
     mod_stage |-> mod_stage, parameters |-> parameters]

SetModState(g) ==
    /\ modules' = g.modules
    /\ module_list' = g.module_list
    /\ generic_module_list' = g.generic_module_list
    /\ mod_stage' = g.mod_stage
    /\ parameters' = g.parameters

compiler_find_or_create_module_NoFind(g, n, p) ==
    [modules |-> g.modules \cup {n},
     module_list |-> IF p THEN g.module_list ELSE Append(g.module_list, n),
     generic_module_list |->
         IF p THEN Append(g.generic_module_list, n) ELSE g.generic_module_list,
     mod_stage |-> [g.mod_stage EXCEPT ![n] = ANALYSIS_NOT_BEGUN],
     parameters |-> [g.parameters EXCEPT ![n] = p]]

\* ------------------------------------------------------------ source names

\* A name is a sequence of characters.
Chars == {"/", "*", ".", "c", "3"}

\* The k-th file of the working directory: c.c3, cc.c3, ccc.c3, ...
FileName(k) == [j \in 1..k |-> "c"] \o <<".", "c", "3">>

\* The standard-library sources of compiler_compile, in its order, for the
\* library directory "lib".
StdSourceFiles ==
    <<<<"l", "i", "b", "/", "s", "t", "d", "/", "r", "u", "n", "t", "i", "m", "e", ".", "c", "3">>,
      <<"l", "i", "b", "/", "s", "t", "d", "/", "b", "u", "i", "l", "t", "i", "n", ".", "c", "3">>,
      <<"l", "i", "b", "/", "s", "t", "d", "/", "i", "o", ".", "c", "3">>,
      <<"l", "i", "b", "/", "s", "t", "d", "/", "m", "e", "m", ".", "c", "3">>,
      <<"l", "i", "b", "/", "s", "t", "d", "/", "a", "r", "r", "a", "y", ".", "c", "3">>,
      <<"l", "i", "b", "/", "s", "t", "d", "/", "m", "a", "t", "h", ".", "c", "3">>>>

\* The files that exist, in the order a directory listing yields them: the
\* files of the working directory, c/c.c3, c/c.c, c/c/c.c3 and the library.
Disk ==
    [k \in Files |-> FileName(k)] \o
    <<<<"c", "/", "c", ".", "c", "3">>, <<"c", "/", "c", ".", "c">>, <<"c", "/", "c", "/", "c", ".", "c", "3">>>> \o
    StdSourceFiles

\* source_file_load(name, &loaded): the file is in the cache (loaded is set),
\* is read from disk, or cannot be read (a fatal error).
source_file_load(name) ==
    IF name \in loaded_files THEN "cached"
    ELSE IF name \in Range(Disk) THEN "new"
    ELSE "failed"

\* target_expand_source_names, the shape of one entry: a single file, a
\* wildcard, a recursive wildcard, or an invalid name
NameShape_SlashOnly(name) ==
    LET name_len == Len(name)
    IN  IF name_len < 1 THEN "invalid"
        ELSE IF name[name_len] = "*"
        THEN IF name_len > 1 /\ name[name_len - 1] = "/" THEN "wildcard"
             ELSE IF name_len = 1 \/ name[name_len - 1] # "*" THEN "invalid"
             ELSE IF name_len > 2 /\ name[name_len - 2] = "/" THEN "recursive"
             ELSE "invalid"
        ELSE IF name_len < 3 THEN "invalid"
        ELSE IF SubSeq(name, name_len - 2, name_len) # <<".", "c", "3">> THEN "invalid"
        ELSE "file"

NameShape(name) ==
    LET name_len == Len(name)
    IN  IF name_len < 1 THEN "invalid"
        ELSE IF name[name_len] = "*"
        THEN IF name_len = 1 \/ name[name_len - 1] = "/" THEN "wildcard"
             ELSE IF name[name_len - 1] # "*" THEN "invalid"
             ELSE IF name_len = 2 \/ name[name_len - 2] = "/" THEN "recursive"
             ELSE "invalid"
        ELSE IF name_len < 4 THEN "invalid"
        ELSE IF SubSeq(name, name_len - 2, name_len) # <<".", "c", "3">> THEN "invalid"
        ELSE "file"

\* file_add_wildcard_files(&files, path, recursive): the .c3 files in the
\* directory path, and in its subdirectories when recursive
WildcardFiles(path, recursive) ==
    LET InDir(f) ==
            /\ Len(f) > Len(path)
            /\ SubSeq(f, 1, Len(path)) = path
            /\ SubSeq(f, Len(f) - 2, Len(f)) = <<".", "c", "3">>
            /\ recursive \/ \A k \in (Len(path) + 1)..Len(f) : f[k] # "/"
    IN  SelectSeq(Disk, InDir)

\* target_expand_source_names: the expanded list, or the first invalid name
RECURSIVE ExpandFrom(_, _, _)
ExpandFrom(srcs, k, files) ==
    IF k > Len(srcs) THEN [invalid |-> FALSE, files |-> files]
    ELSE LET name == srcs[k]
             shape == NameShape(name)
         IN  IF shape = "invalid" THEN [invalid |-> TRUE, files |-> files]
             ELSE IF shape = "wildcard"
             THEN ExpandFrom(srcs, k + 1,
                      files \o WildcardFiles(SubSeq(name, 1, Len(name) - 1), FALSE))
             ELSE IF shape = "recursive"
             THEN ExpandFrom(srcs, k + 1,
                      files \o WildcardFiles(SubSeq(name, 1, Len(name) - 2), TRUE))
             ELSE ExpandFrom(srcs, k + 1, Append(files, name))

target_expand_source_names(srcs) == ExpandFrom(srcs, 1, <<>>)

\* compiler_find_or_create_module(module_name, parameters), on the registry g
compiler_find_or_create_module(g, n, p) ==
    IF n \in g.modules
    THEN g
    ELSE [modules |-> g.modules \cup {n},
          module_list |-> IF p THEN g.module_list ELSE Append(g.module_list, n),
          generic_module_list |->
              IF p THEN Append(g.generic_module_list, n) ELSE g.generic_module_list,
          mod_stage |-> [g.mod_stage EXCEPT ![n] = ANALYSIS_NOT_BEGUN],
          parameters |-> [g.parameters EXCEPT ![n] = p]]

\* The names a file or an import can give: a module that exists, or a new one.
NamesInUseOrNext == {n \in ModNames : n <= Cardinality(modules) + 1}

\* What a diagnostic does to the counter (capped by MaxErrors).
RaiseErrors(e) == IF errors_found + e > MaxErrors THEN MaxErrors ELSE errors_found + e

\* -------------------------------------------------- public-symbol registry

Decls == 1..MaxDecls
Names == 1..MaxNames
RegModules == 1..MaxRegModules
NullDecl == 0                          \* NULL: stable_get found nothing
poisoned_decl == MaxDecls + 1          \* the poison sentinel
StdModule == MaxRegModules             \* the name of std_module, kw_std

\* decl->name and decl->module->name->module of declaration d: the pool holds
\* declarations of one name in several modules and several declarations of
\* one name in one module.
DeclName(d) == ((d - 1) % MaxNames) + 1
DeclModule(d) == (((d - 1) \div MaxNames) % MaxRegModules) + 1

NoTable == <<>>                        \* no sub-table for the module yet
NewTable == [n \in Names |-> NullDecl] \* stable_init: an empty table

\* stable_get(table, key)
stable_get(table, key) == IF key \in DOMAIN table THEN table[key] ELSE NullDecl

RegisterGlobal_NoPoison(gs, d) == [gs EXCEPT ![DeclName(d)] = d]

RegisterGlobal_KeepFirst(gs, d) ==
    [gs EXCEPT ![DeclName(d)] =
        IF stable_get(gs, DeclName(d)) # NullDecl THEN stable_get(gs, DeclName(d)) ELSE d]

\* compiler_register_public_symbol: the write to global_symbols
RegisterGlobal(gs, d) ==
    LET prev == stable_get(gs, DeclName(d))
    IN  [gs EXCEPT ![DeclName(d)] = IF prev # NullDecl THEN poisoned_decl ELSE d]

RegisterQualified_ReusePrev(qs, gs, d) ==
    LET sub == IF qs[DeclModule(d)] = NoTable THEN NewTable ELSE qs[DeclModule(d)]
        prev == stable_get(gs, DeclName(d))
    IN  [qs EXCEPT ![DeclModule(d)] =
            [sub EXCEPT ![DeclName(d)] = IF prev # NullDecl THEN poisoned_decl ELSE d]]

\* compiler_register_public_symbol: the write to qualified_symbols, the
\* sub-table of the module being created on its first use. gs is
\* global_symbols as it was before the call.
RegisterQualified(qs, gs, d) ==
    LET sub == IF qs[DeclModule(d)] = NoTable THEN NewTable ELSE qs[DeclModule(d)]
        prev == stable_get(sub, DeclName(d))
    IN  [qs EXCEPT ![DeclModule(d)] =
            [sub EXCEPT ![DeclName(d)] = IF prev # NullDecl THEN poisoned_decl ELSE d]]

\* compiler_register_public_symbol(decl)
compiler_register_public_symbol(d) ==
    /\ global_symbols' = RegisterGlobal(global_symbols, d)
    /\ qualified_symbols' = RegisterQualified(qualified_symbols, global_symbols, d)
    /\ regLog' = Append(regLog, d)

\* compiler_find_symbol(string)
compiler_find_symbol(n) == stable_get(global_symbols, n)

InitRegistryVars ==
    /\ global_symbols = [n \in Names |-> NullDecl]
    /\ qualified_symbols = [m \in RegModules |-> NoTable]
    /\ std_symbols = [n \in Names |-> NullDecl]
    /\ regLog = <<>>

\* ------------------------------------------ scratch buffer and arenas

MAX_STRING_BUFFER == 5     \* capacity of global_context.scratch_buffer

NUL == "NUL"
Bytes == {"a", "b"}

\* The strings a caller appends.
Strings == UNION {[1..n -> Bytes] : n \in 0..MAX_STRING_BUFFER}

NoCall == [op |-> "none", len |-> 0]

InitScratchVars ==
    /\ scratch_buffer = [k \in 0..(MAX_STRING_BUFFER - 1) |-> NUL]
    /\ scratch_buffer_len = 0
    /\ overrun = FALSE
    /\ sbCall = NoCall

\* The seven arenas of the compiler.
Arenas == {"ast", "expr", "decl", "type_info", "sourceloc", "toktype", "tokdata"}

\* The arenas in which compiler_init allocates the zero index value.
PreAllocated_NoTokdata == {"sourceloc", "toktype"}

PreAllocated == {"sourceloc", "toktype", "tokdata"}

\* The arenas as compiler_init leaves them.
InitArenaVars ==
    /\ arena_next = [a \in Arenas |-> IF a \in PreAllocated THEN 1 ELSE 0]
    /\ allocLog = {}

Init ==
    /\ pc = "parse"
    /\ \E s \in UNION {[1..n -> Files] : n \in 1..MaxSources} :
           /\ InOrderOfFirstUse(s)
           /\ sources = [k \in DOMAIN s |-> FileName(s[k])]
    /\ src_i = 1
    /\ loaded_files = {}
    /\ contexts = 0
    /\ modules = {}
    /\ module_list = <<>>
    /\ generic_module_list = <<>>
    /\ mod_stage = [n \in ModNames |-> ANALYSIS_NOT_BEGUN]
    /\ parameters = [n \in ModNames |-> FALSE]
    /\ std_stage = ANALYSIS_NOT_BEGUN
    /\ errors_found = 0
    /\ stage = ANALYSIS_NOT_BEGUN
    /\ i = 1
    /\ create_exe = FALSE
    /\ gen_contexts = <<>>
    /\ called = {}
    /\ obj_files = <<>>
    /\ arenas_freed = {}
    /\ exit_status = NoExit
    /\ passLog = <<>>
    /\ imported = {}
    /\ InitRegistryVars
    /\ focCall = <<>>
    /\ threads = <<>>
    /\ join_i = 1
    /\ link_result = "none"
    /\ target_sources = sources
    /\ lib_dir = FALSE
    /\ mode = "compile"
    /\ loadLog = <<>>
    /\ printed = <<>>
    /\ InitScratchVars
    /\ InitArenaVars

\* ------------------------------------------------------------- front end

\* parse_file(context): the parser either succeeds and places the file in a
\* module (created on first use, generic iff it has parameters), or reports
\* a diagnostic, having reached the module declaration or not.
ParseFile ==
    \E ok \in BOOLEAN, n \in NamesInUseOrNext \cup {NoModule}, p \in BOOLEAN :
        /\ ok => n # NoModule
        /\ n = NoModule => ~p
        /\ SetModState(IF n = NoModule THEN ModState
                       ELSE compiler_find_or_create_module(ModState, n, p))
        /\ errors_found' = IF ok THEN errors_found ELSE RaiseErrors(1)

\* compiler_compile, one iteration of the VECEACH over the sources
ParseNext ==
    /\ UNCHANGED <<regVars, libVars, thrVars, focCall, target_sources, lib_dir, mode, printed>>
    /\ pc = "parse"
    /\ src_i <= Len(sources)
    /\ loadLog' = Append(loadLog, sources[src_i])
    /\ LET file == source_file_load(sources[src_i])
       IN  /\ IF file = "failed"
              THEN /\ pc' = "exit"
                   /\ exit_status' = EXIT_FAILURE
                   /\ UNCHANGED src_i
              ELSE /\ src_i' = src_i + 1
                   /\ UNCHANGED <<pc, exit_status>>
           /\ IF file = "new"
              THEN /\ loaded_files' = loaded_files \cup {sources[src_i]}
                   /\ contexts' = contexts + 1
                   /\ ParseFile
              ELSE \* loaded: continue
                   UNCHANGED <<loaded_files, contexts, modules, module_list,
                               generic_module_list, mod_stage, parameters,
                               errors_found>>
    /\ UNCHANGED <<sources, std_stage, stage, i, create_exe,
                   gen_contexts, called, obj_files, arenas_freed,
                   passLog, imported>>

\* compiler_compile: std_module = (Module){ .name = ... }
StdModuleInit ==
    /\ UNCHANGED <<regVars, libVars, auxVars, thrVars>>
    /\ pc = "parse"
    /\ src_i > Len(sources)
    /\ std_stage' = ANALYSIS_NOT_BEGUN
    /\ pc' = "std_stage"
    /\ UNCHANGED <<sources, src_i, loaded_files, contexts, modules, module_list,
                   generic_module_list, mod_stage, parameters, errors_found, stage, i,
                   create_exe, gen_contexts, called, obj_files,
                   arenas_freed, exit_status, passLog, imported>>

\* compiler_compile: std_module.stage = ANALYSIS_LAST; the source_count check;
\* entry of the stage loop
StdModuleStage ==
    /\ UNCHANGED <<regVars, libVars, auxVars, thrVars>>
    /\ pc = "std_stage"
    /\ std_stage' = ANALYSIS_LAST
    /\ IF contexts = 0
       THEN /\ exit_status' = EXIT_FAILURE
            /\ pc' = "exit"
            /\ stage' = stage
       ELSE /\ stage' = ANALYSIS_NOT_BEGUN + 1
            /\ pc' = "stage_loop"
            /\ exit_status' = exit_status
    /\ UNCHANGED <<sources, src_i, loaded_files, contexts, modules, module_list,
                   generic_module_list, mod_stage, parameters, errors_found, i,
                   create_exe, gen_contexts, called, obj_files,
                   arenas_freed, passLog, imported>>

StageLoopCond_Short == stage < ANALYSIS_LAST

\* compiler_compile: stage <= ANALYSIS_LAST
StageLoopCond == stage <= ANALYSIS_LAST

\* compiler_compile: the head of the stage loop
StageLoop ==
    /\ UNCHANGED <<regVars, libVars, auxVars, thrVars>>
    /\ pc = "stage_loop"
    /\ IF StageLoopCond
       THEN /\ i' = 1
            /\ pc' = "analyze"
       ELSE /\ i' = i
            /\ pc' = "headers"
    /\ UNCHANGED <<sources, src_i, loaded_files, contexts, modules, module_list,
                   generic_module_list, mod_stage, parameters, std_stage, errors_found,
                   stage, create_exe, gen_contexts, called,
                   obj_files, arenas_freed, exit_status, passLog, imported>>

TargetStage_Last == ANALYSIS_LAST

\* compiler_compile: the stage handed to analyze_to_stage
TargetStage == stage

\* analyze_to_stage: the head of the loop over module_list; vec_size is read
\* again on every iteration
AnalyzeLoop ==
    /\ UNCHANGED <<regVars, libVars, auxVars, thrVars>>
    /\ pc = "analyze"
    /\ pc' = IF i <= Len(module_list) THEN "sema" ELSE "halt"
    /\ UNCHANGED <<sources, src_i, loaded_files, contexts, modules, module_list,
                   generic_module_list, mod_stage, parameters, std_stage, errors_found,
                   stage, i, create_exe, gen_contexts, called,
                   obj_files, arenas_freed, exit_status, passLog, imported>>

WhileCond_Inclusive(m) == mod_stage[m] <= TargetStage

\* sema_analyze_stage: module->stage < stage
WhileCond(m) == mod_stage[m] < TargetStage

\* The pass of stage s on module m. The passes are collaborators of the
\* driver: IMPORTS may create the module an import names (without parameters),
\* and every pass may report diagnostics. g is the registry after stage++.
RunPass(g, s) ==
    \E imp \in NamesInUseOrNext \cup {NoModule}, e \in 0..1 :
        /\ imp # NoModule => s = ANALYSIS_IMPORTS
        /\ SetModState(IF imp = NoModule THEN g
                       ELSE compiler_find_or_create_module(g, imp, FALSE))
        /\ errors_found' = RaiseErrors(e)

\* sema_analyze_stage: one iteration of the while loop, or its exit
SemaIter ==
    /\ UNCHANGED <<regVars, libVars, auxVars, thrVars>>
    /\ pc = "sema"
    /\ LET m == module_list[i]
           s == mod_stage[m] + 1
           g == [ModState EXCEPT !.mod_stage[m] = s]
       IN  IF WhileCond(m)
           THEN /\ IF s \in ANALYSIS_IMPORTS..ANALYSIS_FUNCTIONS
                   THEN /\ RunPass(g, s)
                        /\ passLog' = Append(passLog,
                               [mod |-> m, stage |-> s, target |-> TargetStage,
                                before |-> errors_found, after |-> errors_found'])
                   ELSE /\ SetModState(g)
                        /\ UNCHANGED <<errors_found, passLog>>
                /\ imported' = imported \cup (modules' \ modules)
                /\ IF errors_found' > 0
                   THEN /\ i' = i + 1
                        /\ pc' = "analyze"
                   ELSE UNCHANGED <<i, pc>>
           ELSE /\ i' = i + 1
                /\ pc' = "analyze"
                /\ UNCHANGED <<modules, module_list, generic_module_list, mod_stage,
                               parameters, errors_found, passLog, imported>>
    /\ UNCHANGED <<sources, src_i, loaded_files, contexts, std_stage, stage,
                   create_exe, gen_contexts, called, obj_files,
                   arenas_freed, exit_status>>

HaltStatus_Success == EXIT_SUCCESS

\* halt_on_error: exit(EXIT_FAILURE)
HaltStatus == EXIT_FAILURE

halt_on_error_Never ==
    /\ pc = "halt"
    /\ stage' = stage + 1
    /\ pc' = "stage_loop"
    /\ UNCHANGED exit_status

\* halt_on_error, at the end of analyze_to_stage, then stage++ of the stage loop
halt_on_error ==
    /\ pc = "halt"
    /\ IF errors_found > 0
       THEN /\ exit_status' = HaltStatus
            /\ pc' = "exit"
            /\ stage' = stage
       ELSE /\ stage' = stage + 1
            /\ pc' = "stage_loop"
            /\ exit_status' = exit_status

HaltOnError ==
    /\ UNCHANGED <<regVars, libVars, auxVars, thrVars>>
    /\ halt_on_error
    /\ UNCHANGED <<sources, src_i, loaded_files, contexts, modules, module_list,
                   generic_module_list, mod_stage, parameters, std_stage, errors_found,
                   i, create_exe, gen_contexts, called, obj_files,
                   arenas_freed, passLog, imported>>

\* -------------------------------------------------------------- back end

frontVars == <<sources, src_i, loaded_files, contexts, modules, module_list,
               generic_module_list, mod_stage, parameters, std_stage, errors_found,
               stage, i, passLog, imported>>

\* The subsequence of s at the positions keep, in order.
RECURSIVE SubSeqAt(_, _)
SubSeqAt(s, keep) ==
    IF s = <<>> THEN <<>>
    ELSE LET rest == SubSeqAt(Tail(s), {k - 1 : k \in keep \ {1}})
         IN  IF 1 \in keep THEN <<Head(s)>> \o rest ELSE rest

\* compiler_compile, with active_target.output_headers set: header_gen for
\* each module, then return
HeaderGen ==
    /\ UNCHANGED <<regVars, libVars, auxVars, thrVars>>
    /\ pc = "headers"
    /\ called' = called \cup (IF Len(module_list) > 0 THEN {"header_gen"} ELSE {})
    /\ pc' = "returned"
    /\ UNCHANGED <<frontVars, create_exe, gen_contexts, obj_files, arenas_freed,
                   exit_status>>

\* compiler_compile, with active_target.output_headers clear:
\* llvm_codegen_setup, then llvm_gen for each module; a module may yield no
\* context
LlvmGen ==
    /\ UNCHANGED <<regVars, libVars, auxVars, thrVars>>
    /\ pc = "headers"
    /\ called' = called \cup {"llvm_codegen_setup"}
                        \cup (IF Len(module_list) > 0 THEN {"llvm_gen"} ELSE {})
    /\ \E keep \in SUBSET (1..Len(module_list)) :
           gen_contexts' = SubSeqAt(module_list, keep)
    /\ pc' = "arena_free"
    /\ UNCHANGED <<frontVars, create_exe, obj_files, arenas_freed, exit_status>>

\* The arenas compiler_compile frees after the memory summary.
FreedArenas_None == {}

FreedArenas == {"ast", "decl", "expr", "type_info", "sourceloc", "tokdata"}

\* compiler_compile: the memory summary, the arena frees, create_exe from
\* the target's type and test_output, and the check of output_file_count
ArenaFree ==
    /\ UNCHANGED <<regVars, libVars, auxVars, thrVars>>
    /\ pc = "arena_free"
    /\ arenas_freed' = arenas_freed \cup FreedArenas
    /\ create_exe' \in BOOLEAN
    /\ IF Len(gen_contexts) = 0
       THEN /\ exit_status' = EXIT_FAILURE
            /\ pc' = "exit"
       ELSE /\ exit_status' = exit_status
            /\ pc' = "lower"
    /\ UNCHANGED <<frontVars, gen_contexts, called, obj_files>>

\* The path of no object file: llvm_codegen returned NULL.
NullPath == 0

\* The path of the object file lowered from the context of module m.
ObjPath(m) == MaxModules + m

\* The argument pthread_create hands to the worker spawned k-th.
ThreadArg_First(k) == gen_contexts[1]

ThreadArg(k) == gen_contexts[k]

\* compiler_compile, one iteration of the spawn loop: pthread_create starts
\* compile_on_pthread on gen_contexts[i], or fails and the driver exits
Spawn ==
    /\ UNCHANGED <<regVars, libVars, auxVars>>
    /\ pc = "lower"
    /\ \E spawned \in BOOLEAN :
          IF ~spawned
          THEN /\ exit_status' = EXIT_FAILURE
               /\ pc' = "exit"
               /\ UNCHANGED threads
          ELSE /\ threads' = Append(threads, [arg |-> ThreadArg(Len(threads) + 1),
                                              returned |-> FALSE,
                                              file_name |-> NullPath])
               /\ pc' = IF Len(threads) + 1 = Len(gen_contexts) THEN "join" ELSE "lower"
               /\ exit_status' = exit_status
    /\ UNCHANGED <<frontVars, create_exe, gen_contexts, called, obj_files,
                   arenas_freed, join_i, link_result>>

\* A worker: llvm_codegen lowers its context and returns the object file's
\* path, or NULL when it emits no object file.
Work ==
    /\ UNCHANGED <<regVars, libVars, auxVars>>
    /\ pc \in {"lower", "join"}
    /\ \E k \in DOMAIN threads, emitted \in BOOLEAN :
           /\ ~threads[k].returned
           /\ threads' = [threads EXCEPT
                  ![k] = [arg |-> threads[k].arg,
                          returned |-> TRUE,
                          file_name |-> IF emitted THEN ObjPath(threads[k].arg)
                                        ELSE NullPath]]
    /\ called' = called \cup {"llvm_codegen"}
    /\ UNCHANGED <<pc, frontVars, create_exe, gen_contexts, obj_files,
                   arenas_freed, exit_status, join_i, link_result>>

\* compiler_compile, one iteration of the join loop: pthread_join waits for
\* threads[i]; the assert aborts on a missing path when an executable is
\* built; the path goes to obj_files[i]
Join ==
    /\ UNCHANGED <<regVars, libVars, auxVars>>
    /\ pc = "join"
    /\ join_i <= Len(gen_contexts)
    /\ threads[join_i].returned
    /\ IF threads[join_i].file_name = NullPath /\ create_exe
       THEN /\ pc' = "aborted"
            /\ UNCHANGED <<obj_files, join_i>>
       ELSE /\ obj_files' = Append(obj_files, threads[join_i].file_name)
            /\ join_i' = join_i + 1
            /\ pc' = IF join_i = Len(gen_contexts) THEN "link" ELSE "join"
    /\ UNCHANGED <<frontVars, create_exe, gen_contexts, called, arenas_freed,
                   exit_status, threads, link_result>>

\* Whether the host-default path clears run_after_compile when
\* platform_linker has not linked: its result is not looked at.
PlatformLinkDisablesRun(linked) == FALSE

\* compiler_compile: linking, run-after-compile, free_arena, exit(EXIT_SUCCESS)
Link ==
    /\ UNCHANGED <<regVars, libVars, auxVars>>
    /\ pc = "link"
    /\ \E host_default \in BOOLEAN, supported \in BOOLEAN, linked \in BOOLEAN,
          run_after_compile \in BOOLEAN :
          LET result == IF ~create_exe THEN "none"
                        ELSE IF host_default
                             THEN (IF linked THEN "linked" ELSE "failed")
                        ELSE IF ~supported THEN "unsupported"
                        ELSE IF linked THEN "linked" ELSE "failed"
              run == /\ create_exe
                     /\ run_after_compile
                     /\ IF host_default THEN ~PlatformLinkDisablesRun(linked)
                        ELSE supported /\ linked
          IN  /\ link_result' = result
              /\ called' = called
                     \cup (IF create_exe /\ host_default THEN {"platform_linker"} ELSE {})
                     \cup (IF create_exe /\ ~host_default /\ supported
                           THEN {"linker"} ELSE {})
                     \cup (IF run THEN {"system"} ELSE {})
    /\ exit_status' = EXIT_SUCCESS
    /\ pc' = "exit"
    /\ UNCHANGED <<frontVars, create_exe, gen_contexts, obj_files, arenas_freed,
                   threads, join_i>>

Next ==
    \/ ParseNext
    \/ StdModuleInit
    \/ StdModuleStage
    \/ StageLoop
    \/ AnalyzeLoop
    \/ SemaIter
    \/ HaltOnError
    \/ HeaderGen
    \/ LlvmGen
    \/ ArenaFree
    \/ Spawn
    \/ Work
    \/ Join
    \/ Link

Spec == Init /\ [][Next]_vars

\* ------------------------------------- the registry under arbitrary calls

\* A pass (REGISTER_GLOBALS) registers a public declaration.
Register ==
    /\ Len(regLog) < MaxRegs
    /\ \E d \in Decls : compiler_register_public_symbol(d)
    /\ UNCHANGED <<std_symbols, pipeVars, auxVars, thrVars, libVars>>

\* add_global_define(name, value): a fresh declaration of std_module
AddGlobalDefine ==
    /\ Len(regLog) < MaxRegs
    /\ \E d \in Decls :
           /\ DeclModule(d) = StdModule
           /\ d \notin Range(regLog)
           /\ compiler_register_public_symbol(d)
           /\ std_symbols' = [std_symbols EXCEPT ![DeclName(d)] = d]
    /\ UNCHANGED <<pipeVars, auxVars, thrVars, libVars>>

InitRegistry ==
    /\ Init
    /\ sources = <<FileName(1)>>

NextRegistry == Register \/ AddGlobalDefine

SpecRegistry == InitRegistry /\ [][NextRegistry]_vars

\* ------------------------------ the module registry under arbitrary calls

restVars == <<pc, sources, src_i, loaded_files, contexts, std_stage, errors_found,
              stage, i, create_exe, gen_contexts, called, obj_files, arenas_freed,
              exit_status, passLog, imported, target_sources, lib_dir, mode,
              loadLog, printed>>

\* The parser or a pass calls compiler_find_or_create_module(name, parameters).
FindOrCreateCall ==
    /\ \E n \in NamesInUseOrNext, p \in BOOLEAN :
           /\ SetModState(compiler_find_or_create_module(ModState, n, p))
           /\ focCall' = <<[name |-> n, parameters |-> p]>>
    /\ UNCHANGED <<restVars, regVars, libVars, thrVars>>

\* sema_analyze_stage: module->stage++ on a module of module_list
AdvanceStage ==
    /\ \E m \in Range(module_list) :
           /\ mod_stage[m] < ANALYSIS_LAST
           /\ mod_stage' = [mod_stage EXCEPT ![m] = mod_stage[m] + 1]
    /\ focCall' = <<>>
    /\ UNCHANGED <<modules, module_list, generic_module_list, parameters, restVars,
                   regVars, libVars, thrVars>>

InitModules ==
    /\ Init
    /\ sources = <<FileName(1)>>

NextModules == FindOrCreateCall \/ AdvanceStage

SpecModules == InitModules /\ [][NextModules]_vars

\* ------------------------------------------- compile(): names, modes, prelude

MaxNameLen == 4      \* characters of a source name given on its own
MaxEntries == 2      \* entries of a list of example names

\* Every name of up to MaxNameLen characters.
AllNames == UNION {[1..n -> Chars] : n \in 0..MaxNameLen}

\* Names of each valid shape, and an invalid one: c.c3, cc.c3, c/*, c/**, c*
ExampleNames ==
    {FileName(1), FileName(2), <<"c", "/", "*">>, <<"c", "/", "*", "*">>, <<"c", "*">>}

Modes == {"lex_only", "parse_only", "compile"}

\* What compile() makes global_context.sources: the target's list as it is
\* before target_expand_source_names runs.
GlobalSources(given, expanded) == given

\* Whether a VECEACH over global_context.sources has an entry left.
VecEachRuns_UntilPrinted == src_i <= Len(sources) /\ printed = <<>>

VecEachRuns == src_i <= Len(sources)

modVars == <<modules, module_list, generic_module_list, mod_stage, parameters>>

backVars == <<create_exe, gen_contexts, called, obj_files, arenas_freed>>

\* compile(): global_context.sources, target_expand_source_names, the check
\* for no files, and the dispatch on lex_only and parse_only
Compile ==
    /\ pc = "compile"
    /\ LET expanded == target_expand_source_names(target_sources)
       IN  /\ sources' = GlobalSources(target_sources, expanded.files)
           /\ IF expanded.invalid
              THEN /\ pc' = "exit"
                   /\ exit_status' = EXIT_FAILURE
                   /\ UNCHANGED target_sources
              ELSE /\ target_sources' = expanded.files
                   /\ IF Len(expanded.files) = 0
                      THEN /\ pc' = "exit"
                           /\ exit_status' = EXIT_FAILURE
                      ELSE /\ pc' = IF mode = "lex_only" THEN "lex"
                                    ELSE IF mode = "parse_only" THEN "parse_only"
                                    ELSE "prelude"
                           /\ UNCHANGED exit_status
    /\ UNCHANGED <<src_i, loaded_files, contexts, modVars, std_stage, errors_found,
                   stage, i, backVars, passLog, imported, regVars, libVars, thrVars,
                   focCall, lib_dir, mode, loadLog, printed>>

\* compiler_lex, one iteration of the VECEACH: load the entry, skip it when
\* it was loaded before, else print the file's tokens
LexNext ==
    /\ pc = "lex"
    /\ VecEachRuns
    /\ loadLog' = Append(loadLog, sources[src_i])
    /\ LET file == source_file_load(sources[src_i])
       IN  /\ IF file = "failed"
              THEN /\ pc' = "exit"
                   /\ exit_status' = EXIT_FAILURE
                   /\ UNCHANGED src_i
              ELSE /\ src_i' = src_i + 1
                   /\ UNCHANGED <<pc, exit_status>>
           /\ IF file = "new"
              THEN /\ loaded_files' = loaded_files \cup {sources[src_i]}
                   /\ printed' = Append(printed, sources[src_i])
              ELSE UNCHANGED <<loaded_files, printed>>
    /\ UNCHANGED <<sources, contexts, modVars, std_stage, errors_found,
                   stage, i, backVars, passLog, imported, regVars, libVars, thrVars,
                   focCall, target_sources, lib_dir, mode>>

\* compiler_lex, after the VECEACH: exit(EXIT_SUCCESS)
LexExit ==
    /\ pc = "lex"
    /\ ~VecEachRuns
    /\ pc' = "exit"
    /\ exit_status' = EXIT_SUCCESS
    /\ UNCHANGED <<sources, src_i, loaded_files, contexts, modVars, std_stage,
                   errors_found, stage, i, backVars, passLog, imported, regVars, libVars,
                   thrVars, auxVars>>

\* compiler_parse, one iteration of the VECEACH: load the entry, skip it
\* when it was loaded before, else clear the error counters, parse the file
\* and print its AST
ParseOnlyNext ==
    /\ pc = "parse_only"
    /\ VecEachRuns
    /\ loadLog' = Append(loadLog, sources[src_i])
    /\ LET file == source_file_load(sources[src_i])
       IN  /\ IF file = "failed"
              THEN /\ pc' = "exit"
                   /\ exit_status' = EXIT_FAILURE
                   /\ UNCHANGED src_i
              ELSE /\ src_i' = src_i + 1
                   /\ UNCHANGED <<pc, exit_status>>
           /\ IF file = "new"
              THEN /\ loaded_files' = loaded_files \cup {sources[src_i]}
                   /\ printed' = Append(printed, sources[src_i])
                   /\ \E ok \in BOOLEAN, n \in NamesInUseOrNext \cup {NoModule},
                         p \in BOOLEAN :
                          /\ ok => n # NoModule
                          /\ n = NoModule => ~p
                          /\ SetModState(IF n = NoModule THEN ModState
                                         ELSE compiler_find_or_create_module(ModState, n, p))
                          /\ errors_found' = IF ok THEN 0 ELSE 1
              ELSE UNCHANGED <<loaded_files, printed, modVars, errors_found>>
    /\ UNCHANGED <<sources, contexts, std_stage, stage, i, backVars, passLog,
                   imported, regVars, libVars, thrVars, focCall, target_sources, lib_dir, mode>>

\* compiler_parse, after the VECEACH: exit(EXIT_SUCCESS)
ParseOnlyExit ==
    /\ pc = "parse_only"
    /\ ~VecEachRuns
    /\ pc' = "exit"
    /\ exit_status' = EXIT_SUCCESS
    /\ UNCHANGED <<sources, src_i, loaded_files, contexts, modVars, std_stage,
                   errors_found, stage, i, backVars, passLog, imported, regVars, libVars,
                   thrVars, auxVars>>

\* What compiler_compile makes of the sources when a library directory is
\* configured: vec_add puts each standard-library source at the end.
AddStdSources_Prepend(srcs) == StdSourceFiles \o srcs

AddStdSources(srcs) == srcs \o StdSourceFiles

\* compiler_compile, before the parse loop: the error counters are cleared
\* and the standard-library sources are added
Prelude ==
    /\ pc = "prelude"
    /\ errors_found' = 0
    /\ sources' = IF lib_dir THEN AddStdSources(sources) ELSE sources
    /\ pc' = "parse"
    /\ UNCHANGED <<src_i, loaded_files, contexts, modVars, std_stage,
                   stage, i, backVars, exit_status, passLog, imported, regVars, libVars,
                   thrVars, auxVars>>

InitSources ==
    /\ pc = "compile"
    /\ target_sources \in
           {<<name>> : name \in AllNames} \cup
           UNION {[1..n -> ExampleNames] : n \in 0..MaxEntries}
    /\ lib_dir \in BOOLEAN
    /\ mode \in Modes
    /\ sources = <<>>
    /\ src_i = 1
    /\ loaded_files = {}
    /\ contexts = 0
    /\ modules = {}
    /\ module_list = <<>>
    /\ generic_module_list = <<>>
    /\ mod_stage = [n \in ModNames |-> ANALYSIS_NOT_BEGUN]
    /\ parameters = [n \in ModNames |-> FALSE]
    /\ std_stage = ANALYSIS_NOT_BEGUN
    /\ errors_found = 0
    /\ stage = ANALYSIS_NOT_BEGUN
    /\ i = 1
    /\ create_exe = FALSE
    /\ gen_contexts = <<>>
    /\ called = {}
    /\ obj_files = <<>>
    /\ arenas_freed = {}
    /\ exit_status = NoExit
    /\ passLog = <<>>
    /\ imported = {}
    /\ InitRegistryVars
    /\ focCall = <<>>
    /\ threads = <<>>
    /\ join_i = 1
    /\ link_result = "none"
    /\ loadLog = <<>>
    /\ printed = <<>>
    /\ InitScratchVars
    /\ InitArenaVars

NextSources ==
    \/ Compile
    \/ LexNext
    \/ LexExit
    \/ ParseOnlyNext
    \/ ParseOnlyExit
    \/ Prelude
    \/ Next

SpecSources == InitSources /\ [][NextSources]_vars

\* ---------------------------------------- the scratch buffer under any calls

\* error_exit: the process exits with a non-zero status
error_exit ==
    /\ pc' = "exit"
    /\ exit_status' = EXIT_FAILURE

\* The overflow test of scratch_buffer_append_len.
ScratchOverflows_Full(len) == len + scratch_buffer_len > MAX_STRING_BUFFER

ScratchOverflows(len) == len + scratch_buffer_len > MAX_STRING_BUFFER - 1

\* A write of bytes to scratch_buffer from index at on: inside the buffer it
\* stores them, past its end it is an overrun.
WriteScratch(at, bytes) ==
    /\ scratch_buffer' =
           [k \in DOMAIN scratch_buffer |->
                IF k >= at /\ k < at + Len(bytes) THEN bytes[k - at + 1]
                ELSE scratch_buffer[k]]
    /\ overrun' = (overrun \/ at + Len(bytes) > MAX_STRING_BUFFER)

\* scratch_buffer_append_len(string, len)
scratch_buffer_append_len(string, len) ==
    IF ScratchOverflows(len)
    THEN /\ error_exit
         /\ UNCHANGED <<scratch_buffer, scratch_buffer_len, overrun>>
    ELSE /\ WriteScratch(scratch_buffer_len, SubSeq(string, 1, len))
         /\ scratch_buffer_len' = scratch_buffer_len + len
         /\ UNCHANGED <<pc, exit_status>>

scratchRest == <<sources, src_i, loaded_files, contexts, modVars, std_stage,
                 errors_found, stage, i, backVars, passLog, imported, regVars,
                 thrVars, auxVars, arenaVars>>

\* scratch_buffer_clear()
ScratchClear ==
    /\ pc # "exit"
    /\ scratch_buffer_len' = 0
    /\ sbCall' = [op |-> "clear", len |-> 0]
    /\ UNCHANGED <<pc, exit_status, scratch_buffer, overrun, scratchRest>>

\* scratch_buffer_append_len(string, len), for a string of at least len bytes
ScratchAppendLen ==
    /\ pc # "exit"
    /\ \E string \in Strings, len \in 0..MAX_STRING_BUFFER :
           /\ len <= Len(string)
           /\ scratch_buffer_append_len(string, len)
           /\ sbCall' = [op |-> "append_len", len |-> len]
    /\ UNCHANGED scratchRest

\* scratch_buffer_append(string): the length is strlen(string)
ScratchAppend ==
    /\ pc # "exit"
    /\ \E string \in Strings :
           /\ scratch_buffer_append_len(string, Len(string))
           /\ sbCall' = [op |-> "append", len |-> Len(string)]
    /\ UNCHANGED scratchRest

\* scratch_buffer_append_char(c)
ScratchAppendChar ==
    /\ pc # "exit"
    /\ \E c \in Bytes :
           IF scratch_buffer_len + 1 > MAX_STRING_BUFFER - 1
           THEN /\ error_exit
                /\ UNCHANGED <<scratch_buffer, scratch_buffer_len, overrun>>
           ELSE /\ WriteScratch(scratch_buffer_len, <<c>>)
                /\ scratch_buffer_len' = scratch_buffer_len + 1
                /\ UNCHANGED <<pc, exit_status>>
    /\ sbCall' = [op |-> "append_char", len |-> 1]
    /\ UNCHANGED scratchRest

\* scratch_buffer_to_string(): the terminator is written at scratch_buffer_len
ScratchToString ==
    /\ pc # "exit"
    /\ WriteScratch(scratch_buffer_len, <<NUL>>)
    /\ sbCall' = [op |-> "to_string", len |-> 0]
    /\ UNCHANGED <<pc, exit_status, scratch_buffer_len, scratchRest>>

InitScratch ==
    /\ Init
    /\ sources = <<FileName(1)>>

NextScratch ==
    \/ ScratchClear
    \/ ScratchAppendLen
    \/ ScratchAppend
    \/ ScratchAppendChar
    \/ ScratchToString

SpecScratch == InitScratch /\ [][NextScratch]_vars

\* ------------------------------------------------ the arenas from start-up

MaxAllocs == 2       \* allocations in one arena

arenaRest == <<sources, src_i, loaded_files, contexts, modVars, std_stage,
               errors_found, stage, i, backVars, exit_status, passLog, imported,
               regVars, thrVars, focCall, target_sources, mode, loadLog, printed,
               scrVars>>

\* compiler_init(std_lib_dir): the tables and lists are set up empty, each
\* arena is initialised, the zero index value is allocated in three of
\* them, and lib_dir is std_lib_dir or what find_lib_dir finds
CompilerInit ==
    /\ pc = "init"
    /\ arena_next' = [a \in Arenas |-> IF a \in PreAllocated THEN 1 ELSE 0]
    /\ lib_dir' \in BOOLEAN
    /\ pc' = "compile"
    /\ UNCHANGED <<allocLog, arenaRest>>

\* A user allocation (ast_calloc, expr_calloc, ..., tokdata_calloc) after
\* compiler_init: the arena returns its next index.
UserAlloc ==
    /\ pc # "init"
    /\ \E a \in Arenas :
           /\ arena_next[a] < MaxAllocs
           /\ allocLog' = allocLog \cup {<<a, arena_next[a]>>}
           /\ arena_next' = [arena_next EXCEPT ![a] = arena_next[a] + 1]
    /\ UNCHANGED <<pc, lib_dir, arenaRest>>

\* The state at process start, before compiler_init.
InitArenas ==
    /\ pc = "init"
    /\ sources = <<>>
    /\ target_sources = <<>>
    /\ lib_dir = FALSE
    /\ mode = "compile"
    /\ src_i = 1
    /\ loaded_files = {}
    /\ contexts = 0
    /\ modules = {}
    /\ module_list = <<>>
    /\ generic_module_list = <<>>
    /\ mod_stage = [n \in ModNames |-> ANALYSIS_NOT_BEGUN]
    /\ parameters = [n \in ModNames |-> FALSE]
    /\ std_stage = ANALYSIS_NOT_BEGUN
    /\ errors_found = 0
    /\ stage = ANALYSIS_NOT_BEGUN
    /\ i = 1
    /\ create_exe = FALSE
    /\ gen_contexts = <<>>
    /\ called = {}
    /\ obj_files = <<>>
    /\ arenas_freed = {}
    /\ exit_status = NoExit
    /\ passLog = <<>>
    /\ imported = {}
    /\ InitRegistryVars
    /\ focCall = <<>>
    /\ threads = <<>>
    /\ join_i = 1
    /\ link_result = "none"
    /\ loadLog = <<>>
    /\ printed = <<>>
    /\ InitScratchVars
    /\ arena_next = [a \in Arenas |-> 0]
    /\ allocLog = {}

NextArenas == CompilerInit \/ UserAlloc

SpecArenas == InitArenas /\ [][NextArenas]_vars

\* ------------------------------------------------------------ properties

\* A step in which a pass begins, and the pass it begins.
PassBegins == Len(passLog') = Len(passLog) + 1
BegunPass == passLog'[Len(passLog')]

\* The pass of stage s has run on module m.
HasRun(m, s) == \E j \in DOMAIN passLog : passLog[j].mod = m /\ passLog[j].stage = s

\* The stages of the passes run on module m, in the order they ran.
RECURSIVE StagesIn(_, _)
StagesIn(log, m) ==
    IF log = <<>> THEN <<>>
    ELSE IF Head(log).mod = m THEN <<Head(log).stage>> \o StagesIn(Tail(log), m)
         ELSE StagesIn(Tail(log), m)

PassesOf(m) == StagesIn(passLog, m)

AllSixInOrder == [s \in ANALYSIS_IMPORTS..ANALYSIS_FUNCTIONS |-> s]

\* The analysis loop of compiler_compile has finished without a diagnostic.
AnalysisFinished == pc = "headers" /\ errors_found = 0

\* C1: when the pass of a stage k+1 begins on any module, the pass of stage k
\* has already run on every module that module_list holds at that moment,
\* the modules appended during stage k included.
C1_StageGranularity ==
    [][PassBegins /\ BegunPass.stage > ANALYSIS_IMPORTS =>
           \A a \in Range(module_list) : HasRun(a, BegunPass.stage - 1)]_vars

\* C1 witness: a module appended to module_list by a pass has had its IMPORTS
\* pass and a REGISTER_GLOBALS pass has run.
C1_Witness ==
    \E m \in imported :
        /\ HasRun(m, ANALYSIS_IMPORTS)
        /\ \E b \in Range(module_list) : HasRun(b, ANALYSIS_REGISTER_GLOBALS)

\* C2 as stated: when the analysis loop finishes without a diagnostic, every
\* module that exists, with or without parameters, is at ANALYSIS_LAST and has
\* had each of the six passes exactly once, in ascending order.
C2_EveryModuleAnalysed ==
    AnalysisFinished =>
        \A m \in modules :
            mod_stage[m] >= ANALYSIS_LAST /\ PassesOf(m) = AllSixInOrder

\* C2 amended: that holds of every module of module_list; a module with
\* parameters is in generic_module_list, which the driver never analyses, so
\* it is still at ANALYSIS_NOT_BEGUN and no pass has run on it.
C2_ModuleListAnalysed ==
    AnalysisFinished =>
        /\ \A m \in Range(module_list) :
               mod_stage[m] >= ANALYSIS_LAST /\ PassesOf(m) = AllSixInOrder
        /\ \A m \in Range(generic_module_list) :
               mod_stage[m] = ANALYSIS_NOT_BEGUN /\ PassesOf(m) = <<>>

\* C2 witness: the loop finished cleanly with a module that a pass created
\* and a generic module.
C2_Witness ==
    /\ AnalysisFinished
    /\ imported \cap Range(module_list) # {}
    /\ generic_module_list # <<>>

\* C3: no step lowers the stage of a module or of std_module, and no step
\* raises one past ANALYSIS_LAST.
C3_StageMonotone ==
    [][/\ \A m \in ModNames :
              mod_stage'[m] >= mod_stage[m] /\ mod_stage'[m] <= ANALYSIS_LAST
       /\ std_stage' >= std_stage
       /\ std_stage' <= ANALYSIS_LAST]_vars

\* C3 witness: a module has been taken to ANALYSIS_LAST, next to std_module.
C3_Witness ==
    /\ std_stage = ANALYSIS_LAST
    /\ \E m \in Range(module_list) : mod_stage[m] = ANALYSIS_LAST

\* C4 as stated: when a pass of stage s begins on b, every module that exists
\* then, in module_list or in generic_module_list, is at stage s-1 or later.
C4_AllModulesWithinOne ==
    [][PassBegins => \A a \in modules : mod_stage[a] >= BegunPass.stage - 1]_vars

\* C4 amended: that holds of the modules of module_list (those created during
\* a pass included); the modules of generic_module_list stay at
\* ANALYSIS_NOT_BEGUN whatever stage the others begin.
C4_ModuleListWithinOne ==
    [][PassBegins =>
           /\ \A a \in Range(module_list) : mod_stage[a] >= BegunPass.stage - 1
           /\ \A a \in Range(generic_module_list) :
                  mod_stage[a] = ANALYSIS_NOT_BEGUN]_vars

\* C4 witness: a pass past IMPORTS has run while module_list holds a module
\* created during a pass and a generic module exists.
C4_Witness ==
    /\ \E j \in DOMAIN passLog : passLog[j].stage > ANALYSIS_IMPORTS
    /\ imported \cap Range(module_list) # {}
    /\ Len(generic_module_list) > 0
    /\ Len(module_list) > 1

\* The phase in which errors_found became non-zero: 0 for parsing, else the
\* stage of the first pass that returned with the counter raised.
ErrPhase ==
    IF passLog[1].before > 0 THEN ANALYSIS_NOT_BEGUN
    ELSE LET first == CHOOSE j \in DOMAIN passLog :
                          /\ passLog[j].after > 0
                          /\ \A k \in 1..(j - 1) : passLog[k].after = 0
         IN  passLog[first].stage

\* C5: no pass begins with errors_found > 0 whose stage comes after the phase
\* in which the counter became non-zero (parsing is the phase before IMPORTS).
C5_NoLaterStageAfterError ==
    \A j \in DOMAIN passLog :
        passLog[j].before > 0 => passLog[j].stage <= ErrPhase

\* C6 as stated: once a pass has returned with errors_found > 0, no further
\* pass is run on any module.
C6_NoPassAfterError ==
    \A j \in DOMAIN passLog : j > 1 => passLog[j - 1].after = 0

\* C6 amended: once a pass has returned with errors_found > 0, no further pass
\* is run on that module and analyze_to_stage is not entered for a later
\* stage; the modules that follow in module_list still run one pass each, of
\* a stage no later than the one analyze_to_stage is working towards.
C6_OnlySameStageAfterError ==
    \A j \in DOMAIN passLog : \A k \in DOMAIN passLog :
        (j < k /\ passLog[j].after > 0) =>
            /\ passLog[k].target = passLog[j].target
            /\ passLog[k].stage <= passLog[j].target
            /\ passLog[k].mod # passLog[j].mod

\* C6 witness: an analysis pass raised the counter, a following module still
\* ran its pass, and the driver has exited.
C6_Witness ==
    /\ pc = "exit"
    /\ \E j \in DOMAIN passLog :
           /\ passLog[j].before = 0
           /\ passLog[j].after > 0
           /\ j < Len(passLog)

\* C7: in an execution with a diagnostic error the back end is never entered
\* (no header_gen, llvm_codegen_setup, llvm_gen, llvm_codegen, linker) and the
\* driver, when it has exited, exited with EXIT_FAILURE.
C7_NoCodegenAfterError ==
    errors_found > 0 =>
        /\ called = {}
        /\ pc \notin {"headers", "returned", "arena_free", "lower", "join",
                     "aborted", "link"}
        /\ pc = "exit" => exit_status = EXIT_FAILURE

\* C7 witness: the driver exited on a diagnostic after running passes.
C7_Witness ==
    /\ pc = "exit"
    /\ errors_found > 0
    /\ passLog # <<>>
    /\ exit_status = EXIT_FAILURE
\* ---------------------------------------------- properties of the registry

\* The registrations made so far of name n, and of name n with module m.
RegsOfName(n) == {j \in DOMAIN regLog : DeclName(regLog[j]) = n}
RegsOfQualified(m, n) ==
    {j \in DOMAIN regLog : DeclName(regLog[j]) = n /\ DeclModule(regLog[j]) = m}

\* The modules that publicly declare name n.
DeclaringModules(n) == {DeclModule(regLog[j]) : j \in RegsOfName(n)}

\* Every declaration was registered at most once.
OnePerDeclaration ==
    \A j \in DOMAIN regLog : \A k \in DOMAIN regLog : regLog[j] = regLog[k] => j = k

\* The qualified entry of (m, n).
QualifiedEntry(m, n) == stable_get(qualified_symbols[m], n)

\* C8 as stated: after one registration per public declaration, the lookup of
\* n gives a declaration iff exactly one module declares n, the poison
\* sentinel iff two or more modules declare n, nothing iff none does.
C8_LookupByModules ==
    OnePerDeclaration =>
        \A n \in Names :
            /\ compiler_find_symbol(n) \in Decls <=> Cardinality(DeclaringModules(n)) = 1
            /\ compiler_find_symbol(n) = poisoned_decl <=>
                   Cardinality(DeclaringModules(n)) >= 2
            /\ compiler_find_symbol(n) = NullDecl <=> DeclaringModules(n) = {}

\* C8 amended: the lookup of n gives the declaration d iff d is the one
\* registration made of the name n, the poison sentinel iff two or more
\* registrations of n were made (from one module or from several), nothing
\* iff none was made.
C8_LookupByRegistrations ==
    \A n \in Names :
        /\ \A d \in Decls :
               compiler_find_symbol(n) = d <=>
                   (Cardinality(RegsOfName(n)) = 1 /\ \E j \in RegsOfName(n) : regLog[j] = d)
        /\ compiler_find_symbol(n) = poisoned_decl <=> Cardinality(RegsOfName(n)) >= 2
        /\ compiler_find_symbol(n) = NullDecl <=> RegsOfName(n) = {}

\* C8 witness: one module declared a name twice, which poisoned the lookup,
\* and another name has its one declaration.
C8_Witness ==
    /\ OnePerDeclaration
    /\ \E n \in Names :
           /\ Cardinality(DeclaringModules(n)) = 1
           /\ compiler_find_symbol(n) = poisoned_decl
    /\ \E n \in Names : compiler_find_symbol(n) \in Decls

\* C9: once d is registered, its qualified entry and its global entry are d
\* or the poison sentinel, for ever; the qualified entry of (m, n) is the
\* poison sentinel exactly when two or more registrations were made with
\* module m and name n; and a registration from another module leaves the
\* qualified entries of m as they were.
C9_QualifiedEntries ==
    /\ [](\A d \in Range(regLog) :
              /\ QualifiedEntry(DeclModule(d), DeclName(d)) \in {d, poisoned_decl}
              /\ global_symbols[DeclName(d)] \in {d, poisoned_decl})
    /\ [](\A m \in RegModules : \A n \in Names :
              QualifiedEntry(m, n) = poisoned_decl <=>
                  Cardinality(RegsOfQualified(m, n)) >= 2)
    /\ [][\A m \in RegModules :
              (Len(regLog') > Len(regLog) /\ DeclModule(regLog'[Len(regLog')]) # m) =>
                  \A n \in Names :
                      stable_get(qualified_symbols'[m], n) = QualifiedEntry(m, n)]_vars

\* C9 witness: a name is registered from two modules, twice with one of
\* them: that qualified entry is poisoned, the other still is its declaration.
C9_Witness ==
    \E n \in Names : \E m1 \in RegModules : \E m2 \in RegModules :
        /\ m1 # m2
        /\ QualifiedEntry(m1, n) = poisoned_decl
        /\ QualifiedEntry(m2, n) \in Decls

\* The registrations made so far of the declaration d.
RegsOfDecl(d) == {j \in DOMAIN regLog : regLog[j] = d}

\* C10: a declaration registered twice has the poison sentinel as its global
\* entry; the registration of a declaration whose name was not registered
\* before leaves that declaration as the global entry.
C10_TwicePoisonsOnceKeeps ==
    /\ \A d \in Decls :
           Cardinality(RegsOfDecl(d)) >= 2 => global_symbols[DeclName(d)] = poisoned_decl
    /\ regLog # <<>> =>
           LET d == regLog[Len(regLog)]
           IN  RegsOfName(DeclName(d)) = {Len(regLog)} => global_symbols[DeclName(d)] = d

\* C10 witness: one declaration was registered twice and the last call was
\* the first registration of another name.
C10_Witness ==
    /\ \E d \in Decls : Cardinality(RegsOfDecl(d)) = 2
    /\ regLog # <<>>
    /\ RegsOfName(DeclName(regLog[Len(regLog)])) = {Len(regLog)}
\* --------------------------------------- properties of the module registry

\* How often module m occurs in the list s.
Occurrences(s, m) == Cardinality({k \in DOMAIN s : s[k] = m})

\* C11: a call with a name that is present changes neither modules, the two
\* lists, the module's stage nor its parameters, whatever parameters it is
\* given; a call with a new name creates one module at ANALYSIS_NOT_BEGUN, in
\* generic_module_list iff it has parameters and else in module_list; so
\* every module is in exactly one of the lists, once.
C11_FindOrCreateIdempotent ==
    /\ [][focCall' # <<>> =>
              LET n == focCall'[1].name
                  p == focCall'[1].parameters
              IN  IF n \in modules
                  THEN UNCHANGED <<modules, module_list, generic_module_list,
                                   mod_stage, parameters>>
                  ELSE /\ modules' = modules \cup {n}
                       /\ mod_stage' = [mod_stage EXCEPT ![n] = ANALYSIS_NOT_BEGUN]
                       /\ parameters' = [parameters EXCEPT ![n] = p]
                       /\ generic_module_list' =
                              IF p THEN Append(generic_module_list, n)
                              ELSE generic_module_list
                       /\ module_list' =
                              IF p THEN module_list ELSE Append(module_list, n)]_vars
    /\ [](\A m \in ModNames :
              /\ Occurrences(module_list, m) + Occurrences(generic_module_list, m)
                     = (IF m \in modules THEN 1 ELSE 0)
              /\ m \in modules => (parameters[m] <=> Occurrences(generic_module_list, m) = 1))

\* C11 witness: a module without parameters that analysis has advanced was
\* asked for again, this time with parameters, next to a generic module.
C11_Witness ==
    /\ focCall # <<>>
    /\ focCall[1].parameters
    /\ focCall[1].name \in Range(module_list)
    /\ mod_stage[focCall[1].name] > ANALYSIS_NOT_BEGUN
    /\ generic_module_list # <<>>
\* ------------------------------------------------ properties of the back end

\* Every worker has been spawned, has returned and has been joined.
AllJoined ==
    /\ Len(threads) = Len(gen_contexts)
    /\ \A k \in DOMAIN threads : threads[k].returned
    /\ join_i = Len(gen_contexts) + 1
    /\ Len(obj_files) = Len(gen_contexts)

\* The linker is about to be invoked or has been.
AtOrAfterLink == pc = "link" \/ link_result # "none" \/ exit_status = EXIT_SUCCESS

\* C12: in every interleaving of the workers, obj_files[k] is what the worker
\* that lowered gen_contexts[k] returned (the path of that module's object
\* file, or none); every worker is joined before the linker is invoked; and
\* when an executable is built no slot is empty.
C12_ObjFilesMatchContexts ==
    /\ \A k \in DOMAIN obj_files :
           /\ k \in DOMAIN threads
           /\ threads[k].returned
           /\ threads[k].arg = gen_contexts[k]
           /\ obj_files[k] = threads[k].file_name
           /\ obj_files[k] \in {ObjPath(gen_contexts[k]), NullPath}
    /\ AtOrAfterLink =>
           /\ AllJoined
           /\ create_exe => \A k \in DOMAIN obj_files : obj_files[k] # NullPath

\* C12 witness: one worker per module was spawned, each returned a path, all
\* were joined and the driver is at the link step of an executable.
C12_Witness ==
    /\ pc = "link"
    /\ create_exe
    /\ Len(obj_files) = MaxModules
    /\ "llvm_codegen" \in called
    /\ \A k \in DOMAIN obj_files : obj_files[k] = ObjPath(gen_contexts[k])
\* C13 as stated: the AST-family arenas are freed only after every worker
\* has been joined and the object-file paths have been gathered.
C13_FreedOnlyAfterJoin == arenas_freed # {} => AllJoined

\* C13: ast, decl, expr, type_info, sourceloc and tokdata are freed together
\* after llvm_gen has returned for every module and before the first worker
\* is spawned: every worker runs, and is joined, with them freed, and
\* toktype is not among them.
C13_FreedBeforeSpawn ==
    /\ [](arenas_freed # {} =>
             /\ arenas_freed = {"ast", "decl", "expr", "type_info", "sourceloc", "tokdata"}
             /\ "llvm_codegen_setup" \in called
             /\ pc \in {"lower", "join", "aborted", "link", "exit"})
    /\ []((threads # <<>> \/ "llvm_codegen" \in called \/ pc \in {"lower", "join", "link"})
             => arenas_freed = {"ast", "decl", "expr", "type_info", "sourceloc", "tokdata"})
    /\ [][arenas_freed' # arenas_freed =>
              /\ pc = "arena_free"
              /\ threads = <<>>
              /\ threads' = <<>>]_vars

\* C13 witness: a worker is lowering its context, another has not been
\* spawned yet, and the arenas are already freed.
C13_Witness ==
    /\ pc = "lower"
    /\ \E k \in DOMAIN threads : ~threads[k].returned
    /\ arenas_freed # {}
\* C18: './<target_name>' is executed only in an execution in which linking
\* was performed and succeeded, on the host-default path and on the generic
\* path alike.
C18_RunOnlyAfterLinked == "system" \in called => link_result = "linked"
\* ------------------------------------------- properties of the source list

EndsWith(name, suffix) ==
    /\ Len(name) >= Len(suffix)
    /\ SubSeq(name, Len(name) - Len(suffix) + 1, Len(name)) = suffix

\* The entries target_expand_source_names gets to: those with no invalid
\* entry before them.
EntriesReached(srcs) ==
    {k \in DOMAIN srcs : \A j \in 1..(k - 1) : NameShape(srcs[j]) # "invalid"}

\* compile() has got past target_expand_source_names and the check for no
\* files.
PastExpansion == pc \notin {"compile"} /\ (pc = "exit" => loadLog # <<>>)

\* Nothing has been loaded, lexed or parsed.
NothingLoaded ==
    /\ loadLog = <<>>
    /\ loaded_files = {}
    /\ printed = <<>>
    /\ contexts = 0
    /\ modules = {}

\* C14 as stated: with a library directory the six standard-library sources
\* are at the front of the source list and are loaded before every user
\* source.
C14_StdSourcesFirst ==
    (lib_dir /\ mode = "compile" /\ pc \notin {"compile", "prelude"} /\ PastExpansion) =>
        /\ SubSeq(sources, 1, 6) = StdSourceFiles
        /\ loadLog # <<>> => loadLog[1] = StdSourceFiles[1]

\* C14: with a library directory compiler_compile appends the six
\* standard-library sources: the source list is the entries given followed
\* by runtime, builtin, io, mem, array, math, and the entries are passed to
\* source_file_load in list order, so each standard-library source is
\* loaded after every entry given.
C14_StdSourcesLast ==
    (lib_dir /\ mode = "compile" /\ pc \notin {"compile", "prelude"} /\ PastExpansion) =>
        LET given == Len(sources) - 6
            LibStd(base) == <<"l", "i", "b", "/", "s", "t", "d", "/">> \o base \o <<".", "c", "3">>
        IN  /\ given >= 1
            /\ target_expand_source_names(SubSeq(sources, 1, given)).files = target_sources
            /\ SubSeq(sources, given + 1, given + 6) =
                   <<LibStd(<<"r", "u", "n", "t", "i", "m", "e">>), LibStd(<<"b", "u", "i", "l", "t", "i", "n">>),
                     LibStd(<<"i", "o">>), LibStd(<<"m", "e", "m">>),
                     LibStd(<<"a", "r", "r", "a", "y">>), LibStd(<<"m", "a", "t", "h">>)>>
            /\ Len(loadLog) <= Len(sources)
            /\ loadLog = SubSeq(sources, 1, Len(loadLog))

\* C14 witness: two entries were given and the parse loop has loaded them
\* and then the six standard-library sources.
C14_Witness ==
    /\ lib_dir
    /\ pc = "parse"
    /\ Len(sources) = 8
    /\ loadLog = sources
    /\ sources[1] # sources[2]

\* C15 as stated: an entry is a single file iff it ends in .c3, a wildcard
\* iff it ends in /*, a recursive wildcard iff it ends in /**, and anything
\* else is invalid; the first invalid entry makes the driver exit non-zero
\* with nothing loaded.
C15_ShapeBySuffix ==
    [][pc = "compile" =>
          LET Stated(name) ==
                  IF EndsWith(name, <<".", "c", "3">>) THEN "file"
                  ELSE IF EndsWith(name, <<"/", "*", "*">>) THEN "recursive"
                  ELSE IF EndsWith(name, <<"/", "*">>) THEN "wildcard"
                  ELSE "invalid"
          IN  /\ \A k \in EntriesReached(target_sources) :
                     NameShape(target_sources[k]) = Stated(target_sources[k])
              /\ (\E k \in DOMAIN target_sources : Stated(target_sources[k]) = "invalid")
                     => /\ pc' = "exit"
                        /\ exit_status' = EXIT_FAILURE
                        /\ NothingLoaded']_vars

\* C15: an entry is a single file iff it has at least four characters and
\* ends in .c3, a wildcard iff it is * or ends in /*, a recursive wildcard
\* iff it is ** or ends in /**, and anything else (the empty string and
\* .c3 included) is invalid; the first invalid entry makes the driver exit
\* non-zero with nothing loaded, lexed or parsed.
C15_ShapeByCode ==
    [][pc = "compile" =>
          LET Shape(name) ==
                  IF Len(name) >= 4 /\ EndsWith(name, <<".", "c", "3">>) THEN "file"
                  ELSE IF name = <<"*", "*">> \/ EndsWith(name, <<"/", "*", "*">>)
                  THEN "recursive"
                  ELSE IF name = <<"*">> \/ EndsWith(name, <<"/", "*">>)
                  THEN "wildcard"
                  ELSE "invalid"
          IN  /\ \A k \in EntriesReached(target_sources) :
                     NameShape(target_sources[k]) = Shape(target_sources[k])
              /\ (\E k \in DOMAIN target_sources : Shape(target_sources[k]) = "invalid")
                     => /\ pc' = "exit"
                        /\ exit_status' = EXIT_FAILURE
                        /\ NothingLoaded']_vars

\* C15 witness: a wildcard was followed by an invalid name and the driver
\* exited with nothing loaded.
C15_Witness ==
    /\ pc = "exit"
    /\ exit_status = EXIT_FAILURE
    /\ Len(sources) = 2
    /\ NameShape(sources[1]) = "wildcard"
    /\ NameShape(sources[2]) = "invalid"
    /\ NothingLoaded

\* C19: every name passed to source_file_load is a .c3 file path of the
\* expanded list (or of the standard library), never an unexpanded wildcard
\* entry.
C19_LoadsExpandedFiles ==
    \A k \in DOMAIN loadLog :
        /\ NameShape(loadLog[k]) = "file"
        /\ loadLog[k] \in Range(target_sources) \cup Range(StdSourceFiles)

\* The names of log that are on disk, each at its first occurrence.
RECURSIVE NewlyLoaded(_)
NewlyLoaded(log) ==
    IF log = <<>> THEN <<>>
    ELSE LET front == SubSeq(log, 1, Len(log) - 1)
             name == log[Len(log)]
         IN  IF name \in Range(Disk) /\ name \notin Range(front)
             THEN Append(NewlyLoaded(front), name)
             ELSE NewlyLoaded(front)

\* No analysis pass has run and the back end has not been entered.
NoAnalysis ==
    /\ passLog = <<>>
    /\ \A m \in ModNames : mod_stage[m] = ANALYSIS_NOT_BEGUN
    /\ called = {}
    /\ pc \in {"compile", "lex", "parse_only", "exit"}

\* C20 as stated: in lex_only and parse_only modes at most one file is lexed
\* or printed before the driver exits, and no analysis pass runs.
C20_ExitAfterFirstFile ==
    mode \in {"lex_only", "parse_only"} =>
        /\ Len(printed) <= 1
        /\ NoAnalysis

\* C20: in lex_only and parse_only modes the driver passes the entries of
\* global_context.sources to source_file_load in order, prints every file
\* newly loaded and skips the cached ones, exits with status 0 only after
\* the last entry and non-zero at an entry that cannot be loaded; no
\* analysis pass runs.
C20_EveryNewFilePrinted ==
    mode \in {"lex_only", "parse_only"} =>
        /\ NoAnalysis
        /\ Len(loadLog) <= Len(sources)
        /\ loadLog = SubSeq(sources, 1, Len(loadLog))
        /\ printed = NewlyLoaded(loadLog)
        /\ exit_status = EXIT_SUCCESS => loadLog = sources
        /\ (pc = "exit" /\ loadLog # sources) =>
               /\ exit_status = EXIT_FAILURE
               /\ loadLog # <<>> => loadLog[Len(loadLog)] \notin Range(Disk)

\* C20 witness: lex_only lexed two files and exited with status 0.
C20_Witness ==
    /\ mode = "lex_only"
    /\ pc = "exit"
    /\ exit_status = EXIT_SUCCESS
    /\ Len(printed) = 2
\* ------------------------------------------- properties of the scratch buffer

\* C16: after any sequence of scratch-buffer calls scratch_buffer_len is at
\* most MAX_STRING_BUFFER - 1 and nothing was written past the buffer (the
\* terminator of to_string included); an append of len bytes is accepted,
\* and stores the bytes at the old length, iff scratch_buffer_len + len <=
\* MAX_STRING_BUFFER - 1, and otherwise the compiler exits non-zero with the
\* buffer as it was.
C16_ScratchWithinCapacity ==
    /\ [](scratch_buffer_len <= MAX_STRING_BUFFER - 1 /\ ~overrun)
    /\ [][sbCall'.op \in {"append_len", "append", "append_char"} =>
              LET len == sbCall'.len
              IN  IF scratch_buffer_len + len <= MAX_STRING_BUFFER - 1
                  THEN /\ scratch_buffer_len' = scratch_buffer_len + len
                       /\ exit_status' = NoExit
                       /\ \A k \in DOMAIN scratch_buffer :
                              (k < scratch_buffer_len \/ k >= scratch_buffer_len + len)
                                  => scratch_buffer'[k] = scratch_buffer[k]
                       /\ \A k \in scratch_buffer_len..(scratch_buffer_len + len - 1) :
                              scratch_buffer'[k] \in Bytes
                  ELSE /\ exit_status' = EXIT_FAILURE
                       /\ pc' = "exit"
                       /\ UNCHANGED <<scratch_buffer, scratch_buffer_len>>]_vars

\* C16 witness: an append of several bytes that exactly filled the remaining
\* capacity was accepted.
C16_Witness ==
    /\ sbCall.op = "append_len"
    /\ sbCall.len > 1
    /\ sbCall.len < MAX_STRING_BUFFER - 1
    /\ scratch_buffer_len = MAX_STRING_BUFFER - 1
    /\ exit_status = NoExit
\* ------------------------------------------------- properties of the arenas

====
